---- MODULE Spec2Model ----
(***************************************************************************)
(* Model of ip_demo/src/main.rs: the bound selector, the two attribution   *)
(* functions (attribute, attribute_scoped) and the trial loop of main.     *)
(*                                                                         *)
(* Names are modelled as the integers 1..MaxName, ordered as the strings   *)
(* they stand for are ordered by String::cmp.  The b2dp library (bounds,   *)
(* weight table, integer partition mechanism, exponential mechanism) is    *)
(* not part of the repository; its results are nondeterministic choices    *)
(* over what its interface allows.                                         *)
(***************************************************************************)
EXTENDS Integers, Sequences, FiniteSets, TLC

\* ------------------------------------------------------------------ bounds
MaxRecords == 2
MaxTotal == 2
MaxTrials == 2
NegBound == 1

VARIABLES
    records,            \* Vec<Record>, main.rs:128
    boundrecords,       \* Vec<BoundRecord>, main.rs:146
    histrecords,        \* Vec<Record>, main.rs:158
    bounds_strategy,    \* main.rs:110
    attr_strategy,      \* main.rs:116
    sparsity_control,   \* main.rs:113
    num_trials,         \* main.rs:112
    pb,                 \* the PartitionBound, main.rs:170
    i,                  \* the trial index, main.rs:230
    ip,                 \* the partition drawn in this trial, main.rs:233
    drawn,              \* attributed_records as pushed, with the placeholder draws
    attributed_records, \* main.rs:236
    stdout,             \* the lines printed so far
    pc                  \* main's position

vars == <<records, boundrecords, histrecords, bounds_strategy, attr_strategy,
          sparsity_control, num_trials, pb, i, ip, drawn, attributed_records,
          stdout, pc>>

\* ------------------------------------------------------------ data model
Names == 1..MaxRecords
Counts == 0..MaxTotal
NoBound == [cells |-> -1]

Record == [name : Names, count : Counts]

SeqsUpTo(S, n) == UNION {[1..k -> S] : k \in 0..n}

Range(s) == {s[j] : j \in DOMAIN s}

SeqBag(s) == LET idx(v) == {j \in DOMAIN s : s[j] = v}
             IN  [v \in Range(s) |-> Cardinality(idx(v))]

Prefix(s, n) == [j \in 1..n |-> s[j]]

NonIncreasing(s) == \A j \in 1..(Len(s) - 1) : s[j] >= s[j + 1]

SeqSum(s) ==
    LET S[k \in 0..Len(s)] == IF k = 0 THEN 0 ELSE S[k - 1] + s[k]
    IN  S[Len(s)]

Reverse(s) == [j \in 1..Len(s) |-> s[Len(s) + 1 - j]]

Max2(a, b) == IF a >= b THEN a ELSE b

\* ------------------------------------------------------------ comparators
\* The name comparison with its operands swapped.
ByNameSwapped(r1, r2) == r1.name > r2.name

\* main.rs:274, 276, 321
ByName(r1, r2) == r1.name < r2.name

\* The rank comparison without its reverse(): placeholder ascending.
ByAttributedAscending(r1, r2) ==
    \/ r1.attributed < r2.attributed
    \/ (r1.attributed = r2.attributed /\ r1.name < r2.name)

\* main.rs:300, 340
ByAttributedThenName(r1, r2) ==
    \/ r1.attributed > r2.attributed
    \/ (r1.attributed = r2.attributed /\ r1.name < r2.name)

\* The count comparison without its reverse(): count ascending.
ByCountAscending(r1, r2) == r1.count < r2.count

\* main.rs:309, 349
ByCountDesc(r1, r2) == r1.count > r2.count

\* The canonical comparison without its name tie-break.
CanonicalCountOnly(r1, r2) == r1.count > r2.count

\* main.rs:243
Canonical(r1, r2) ==
    \/ r1.count > r2.count
    \/ (r1.count = r2.count /\ r1.name < r2.name)

\* Vec<i64>::sort() followed by reverse(), main.rs:136-137, 185-186, 194-201.
IntGreater(a, b) == a > b

\* The comparison closure handed to a sort.
Less(order, a, b) ==
    CASE order = "ByName" -> ByName(a, b)
      [] order = "ByAttributedThenName" -> ByAttributedThenName(a, b)
      [] order = "ByCountDesc" -> ByCountDesc(a, b)
      [] order = "Canonical" -> Canonical(a, b)
      [] order = "IntGreater" -> IntGreater(a, b)

\* slice::sort_by: a stable sort.  An element goes after those that compare
\* less and after the equal ones that stood before it.
StableSortBy(s, order) ==
    LET n == Len(s)
        pos(j) == 1 + Cardinality({k \in 1..n :
                        \/ Less(order, s[k], s[j])
                        \/ (~Less(order, s[j], s[k]) /\ k < j)})
    IN  [p \in 1..n |-> s[CHOOSE j \in 1..n : pos(j) = p]]

\* sort() followed by reverse(): descending.
SortReverse(s) == StableSortBy(s, "IntGreater")

\* main.rs:135-137
partition == SortReverse([j \in 1..Len(records) |-> records[j].count])
\* main.rs:141
total_count == SeqSum(partition)
\* main.rs:142
total_cells == Len(partition)


\* ---------------------------------------------------------- bound selector
NoEstimates == [some |-> FALSE, val |-> <<>>]

\* b2dp PartitionBound::new(total_count), called at main.rs:215: the trivial
\* bound [0, total_count] for total_count cells.
PartitionBound_new(T) ==
    [upper |-> [j \in 1..T |-> T],
     lower |-> [j \in 1..T |-> 0],
     count |-> T,
     cells |-> T,
     sparsity_control |-> FALSE,
     noisy_estimates |-> NoEstimates]

\* b2dp PartitionBound::from_noisy_estimates, called at main.rs:176-181: the
\* possible bounds around per-rank noisy estimates of the sorted partition.
NoiseLevels == 0..1

from_noisy_estimates(T, cells, part, sparsity) ==
    {[upper |-> [j \in 1..cells |-> part[j] + d],
      lower |-> [j \in 1..cells |-> Max2(part[j] - d, 0)],
      count |-> T,
      cells |-> cells,
      sparsity_control |-> sparsity,
      noisy_estimates |-> [some |-> TRUE,
                           val |-> [j \in 1..cells |-> part[j] + d]]]
        : d \in NoiseLevels}

\* The reference partition padded with zeros to n cells.
PadTo(s, n) == [j \in 1..n |-> IF j <= Len(s) THEN s[j] ELSE 0]

\* b2dp PartitionBound::with_reference, called at main.rs:187-190: the possible
\* bounds at a noisy distance around the historical partition.
with_reference(T, histpart, part) ==
    {[upper |-> [j \in 1..Len(part) |-> PadTo(histpart, Len(part))[j] + d],
      lower |-> [j \in 1..Len(part) |-> Max2(PadTo(histpart, Len(part))[j] - d, 0)],
      count |-> T,
      cells |-> Len(part),
      sparsity_control |-> FALSE,
      noisy_estimates |-> NoEstimates]
        : d \in NoiseLevels}

\* The column sort without its reverse(): ascending.
SortedColumnNoReverse(col) == Reverse(SortReverse(col))

\* main.rs:193-195, 196-198, 199-201: one column, sorted and reversed.
SortedColumn(col) == SortReverse(col)

\* main.rs:192-214
FromFile(brs, T) ==
    LET lower == SortedColumn([j \in 1..Len(brs) |-> brs[j].lower])
        upper == SortedColumn([j \in 1..Len(brs) |-> brs[j].upper])
        estimate == SortedColumn([j \in 1..Len(brs) |-> brs[j].estimate])
    IN  [upper |-> Append(upper, 0),
         lower |-> Append(lower, 0),
         count |-> T,
         cells |-> Len(brs),
         sparsity_control |-> FALSE,
         noisy_estimates |-> [some |-> TRUE, val |-> estimate]]

\* The selector with the Naive arm given the cell count for the total count.
select_bound_cells(strategy) ==
    CASE strategy = "Laplace" ->
            from_noisy_estimates(total_count, total_cells, partition, sparsity_control)
      [] strategy = "HistoricalDistance" ->
            with_reference(total_count,
                           SortReverse([j \in 1..Len(histrecords) |-> histrecords[j].count]),
                           partition)
      [] strategy = "FromFile" -> {FromFile(boundrecords, total_count)}
      [] OTHER -> {PartitionBound_new(total_cells)}

\* main.rs:170-216: the bounds the match can produce for a strategy name.
\* clap only admits the four names; any other name would take the last arm.
select_bound(strategy) ==
    CASE strategy = "Laplace" ->
            from_noisy_estimates(total_count, total_cells, partition, sparsity_control)
      [] strategy = "HistoricalDistance" ->
            with_reference(total_count,
                           SortReverse([j \in 1..Len(histrecords) |-> histrecords[j].count]),
                           partition)
      [] strategy = "FromFile" -> {FromFile(boundrecords, total_count)}
      [] OTHER -> {PartitionBound_new(total_count)}

\* Whether the arm of the match calls a b2dp constructor that returns a Result.
BoundMayFail(strategy) == strategy # "FromFile"

\* ------------------------------------------------------------- attribution
\* main.rs:295-296, 335-336: one AttributedRecord pushed per successful draw,
\* holding the drawn value as placeholder.
Push(recs, draws) ==
    [j \in 1..Len(draws) |->
        [name |-> recs[j].name, count |-> recs[j].count,
         ideal_partition |-> 0, attributed |-> draws[j]]]

\* The assignment with a constant index: every record gets the first value.
AssignAttributedFirst(ars, p) ==
    [j \in 1..Len(ars) |-> [ars[j] EXCEPT !.attributed = p[1]]]

\* main.rs:304-306, 344-346
AssignAttributed(ars, p) ==
    [j \in 1..Len(ars) |-> [ars[j] EXCEPT !.attributed = p[j]]]

\* main.rs:310-312, 350-352
AssignIdeal(ars, p) ==
    [j \in 1..Len(ars) |-> [ars[j] EXCEPT !.ideal_partition = p[j]]]

\* main.rs:299-306, 339-346
RankAssign(pushed, p) ==
    AssignAttributed(StableSortBy(pushed, "ByAttributedThenName"), p)

\* The ideal assignment without the re-sort by count.
IdealAssignUnsorted(ars, p) == AssignIdeal(ars, p)

\* main.rs:308-312, 348-352
IdealAssign(ars, p) ==
    AssignIdeal(StableSortBy(ars, "ByCountDesc"), p)

\* main.rs:333: the outcome space of a Basic draw is the partition itself.
BasicOutcomes(p) == Range(p)

\* main.rs:285: the outcome space of a Scoped draw.
ScopedOutcomes(br) == br.lower..br.upper

\* main.rs:318-355.  draws holds the values the exponential mechanism returned,
\* in call order; a draws shorter than the loop is a run whose next call
\* returned Err.
attribute(p, recs, draws) ==
    LET sorted == StableSortBy(recs, "ByName")
        pushed == Push(sorted, draws)
    IN  IF Len(draws) < Len(recs)
        THEN [status |-> "Err", records |-> sorted, drawn |-> pushed, result |-> <<>>]
        ELSE IF Len(p) < Len(recs)
        THEN [status |-> "Panic", records |-> sorted, drawn |-> pushed, result |-> <<>>]
        ELSE [status |-> "Ok", records |-> sorted, drawn |-> pushed,
              result |-> IdealAssign(RankAssign(pushed, p), p)]

\* main.rs:266-315.  As attribute; indexing boundrecords[i] past its end
\* (main.rs:285) panics before the draw.
attribute_scoped(p, recs, brs, draws) ==
    LET sorted == StableSortBy(recs, "ByName")
        sortedb == StableSortBy(brs, "ByName")
        pushed == Push(sorted, draws)
        base == [records |-> sorted, boundrecords |-> sortedb, drawn |-> pushed]
    IN  IF Len(draws) < Len(recs) /\ Len(draws) < Len(brs)
        THEN base @@ [status |-> "Err", result |-> <<>>]
        ELSE IF Len(brs) < Len(recs) \/ Len(p) < Len(recs)
        THEN base @@ [status |-> "Panic", result |-> <<>>]
        ELSE base @@ [status |-> "Ok",
                      result |-> IdealAssign(RankAssign(pushed, p), p)]

\* The runs of the draw loop of attribute: every prefix of successful draws.
BasicDraws(p, recs) == SeqsUpTo(BasicOutcomes(p), Len(recs))

\* The runs of the draw loop of attribute_scoped.
ScopedDraws(recs, brs) ==
    LET sortedb == StableSortBy(brs, "ByName")
        m == IF Len(recs) < Len(brs) THEN Len(recs) ELSE Len(brs)
        all == UNION {ScopedOutcomes(sortedb[j]) : j \in 1..m}
    IN  {d \in SeqsUpTo(all, m) :
            \A j \in 1..Len(d) : d[j] \in ScopedOutcomes(sortedb[j])}

\* b2dp integer_partition_mechanism_with_weights, called at main.rs:233: the
\* partitions the mechanism can return under a bound, one value per cell,
\* within the cell's range and in non-increasing order.
Partitions(b) ==
    LET vals == UNION {b.lower[j]..b.upper[j] : j \in 1..b.cells}
    IN  {s \in [1..b.cells -> vals] :
            /\ NonIncreasing(s)
            /\ \A j \in 1..b.cells : b.lower[j] <= s[j] /\ s[j] <= b.upper[j]}

\* ------------------------------------------------------------------ main
Column(ars, f) == [j \in 1..Len(ars) |-> ars[j][f]]

Line(k, kind, vals) == [trial |-> k, kind |-> kind, vals |-> vals]

\* main.rs:170-216
SelectBounds ==
    /\ pc = "bounds"
    /\ \/ /\ pb' \in select_bound(bounds_strategy)
          /\ pc' = "weights"
       \/ /\ BoundMayFail(bounds_strategy)
          /\ pb' = pb
          /\ pc' = "error"
    /\ UNCHANGED <<records, boundrecords, histrecords, bounds_strategy,
                   attr_strategy, sparsity_control, num_trials, i, ip, drawn,
                   attributed_records, stdout>>

\* main.rs:219-228: the weight table, the bias line, the precision.
BuildWeightTable ==
    /\ pc = "weights"
    /\ \/ /\ stdout' = Append(stdout, Line(-1, "bias", <<>>))
          /\ pc' = "draw"
       \/ /\ stdout' = stdout
          /\ pc' = "error"
    /\ UNCHANGED <<records, boundrecords, histrecords, bounds_strategy,
                   attr_strategy, sparsity_control, num_trials, pb, i, ip, drawn,
                   attributed_records>>

\* main.rs:230-233
DrawPartition ==
    /\ pc = "draw"
    /\ i < num_trials
    /\ \/ /\ ip' \in Partitions(pb)
          /\ pc' = "attribute"
       \/ /\ ip' = ip
          /\ pc' = "error"
    /\ UNCHANGED <<records, boundrecords, histrecords, bounds_strategy,
                   attr_strategy, sparsity_control, num_trials, pb, i, drawn,
                   attributed_records, stdout>>

\* The return of the attribution with a failed draw not propagated: the
\* records pushed so far go on to the output.
ReturnedErrSwallowed(r) ==
    /\ records' = r.records
    /\ drawn' = r.drawn
    /\ attributed_records' = r.drawn
    /\ pc' = CASE r.status = "Panic" -> "panic"
               [] OTHER -> "output"

\* main.rs:236-239: the `?` on the attribution's result.
Returned(r) ==
    /\ records' = r.records
    /\ drawn' = r.drawn
    /\ attributed_records' = r.result
    /\ pc' = CASE r.status = "Ok" -> "output"
               [] r.status = "Err" -> "error"
               [] OTHER -> "panic"

\* main.rs:236-239
Reattribute ==
    /\ pc = "attribute"
    /\ \/ /\ attr_strategy = "Scoped"
          /\ \E draws \in ScopedDraws(records, boundrecords) :
                LET r == attribute_scoped(ip, records, boundrecords, draws)
                IN  Returned(r) /\ boundrecords' = r.boundrecords
       \/ /\ attr_strategy # "Scoped"
          /\ \E draws \in BasicDraws(ip, records) :
                Returned(attribute(ip, records, draws))
          /\ boundrecords' = boundrecords
    /\ UNCHANGED <<histrecords, bounds_strategy, attr_strategy, sparsity_control,
                   num_trials, pb, i, ip, stdout>>

\* main.rs:241-257
Output ==
    /\ pc = "output"
    /\ LET sorted == StableSortBy(attributed_records, "Canonical")
       IN  /\ attributed_records' = sorted
           /\ stdout' = stdout \o <<Line(i, "counts", Column(sorted, "count")),
                                    Line(i, "ideals", Column(sorted, "ideal_partition")),
                                    Line(i, "attr", Column(sorted, "attributed"))>>
    /\ pc' = "endtrial"
    /\ UNCHANGED <<records, boundrecords, histrecords, bounds_strategy,
                   attr_strategy, sparsity_control, num_trials, pb, i, ip, drawn>>

\* main.rs:258: the end of the loop body drops the trial's locals.
EndTrial ==
    /\ pc = "endtrial"
    /\ i' = i + 1
    /\ ip' = <<>>
    /\ drawn' = <<>>
    /\ attributed_records' = <<>>
    /\ pc' = "draw"
    /\ UNCHANGED <<records, boundrecords, histrecords, bounds_strategy,
                   attr_strategy, sparsity_control, num_trials, pb, stdout>>

\* main.rs:230, 260
Finish ==
    /\ pc = "draw"
    /\ i >= num_trials
    /\ pc' = "done"
    /\ UNCHANGED <<records, boundrecords, histrecords, bounds_strategy,
                   attr_strategy, sparsity_control, num_trials, pb, i, ip, drawn,
                   attributed_records, stdout>>

Next ==
    \/ SelectBounds
    \/ BuildWeightTable
    \/ DrawPartition
    \/ Reattribute
    \/ Output
    \/ EndTrial
    \/ Finish

\* ------------------------------------------------------------------ inputs
Strategies == {"Laplace", "HistoricalDistance", "FromFile", "Naive"}
Attributions == {"Basic", "Scoped"}

\* The record tables of at most MaxRecords rows, in any order, whose names
\* are distinct and whose counts sum to at most MaxTotal.
RecordTables ==
    {t \in SeqsUpTo(Record, MaxRecords) :
        /\ \A j \in 1..Len(t), k \in 1..Len(t) : j # k => t[j].name # t[k].name
        /\ SeqSum([j \in 1..Len(t) |-> t[j].count]) <= MaxTotal}

\* A bound file written for the rows of t: each count widened by w on both
\* sides (w = -1 leaves an empty range).
BoundsFor(t, w) ==
    [j \in 1..Len(t) |->
        [name |-> t[j].name,
         lower |-> Max2(t[j].count - w, 0),
         upper |-> t[j].count + w,
         estimate |-> t[j].count]]

\* The tables a bound file may have been written for, given the record
\* table: the table itself, in the same or the reverse order, without its
\* last row, with one more row, or with its first row under another name.
BoundFileSubjects(t) ==
    {t, Reverse(t), Append(t, [name |-> 1, count |-> 1])}
    \cup (IF t = <<>> THEN {}
          ELSE {SubSeq(t, 1, Len(t) - 1),
                [t EXCEPT ![1].name = (t[1].name % MaxRecords) + 1]})

\* The bound files of a run: one written for the record table with each
\* width, or an exact one written for a table next to it.
BoundFiles(t) ==
    {BoundsFor(t, w) : w \in {-1, 0, 1}}
    \cup {BoundsFor(u, 0) : u \in BoundFileSubjects(t)}

\* Any bound file of at most MaxRecords rows, the j-th named j, with values
\* from -NegBound to 1.
AnyBoundFiles ==
    LET vals == (0 - NegBound)..1
    IN  UNION {{[j \in 1..k |-> [name |-> j, lower |-> f[j][1],
                                  upper |-> f[j][2], estimate |-> 1]]
                    : f \in [1..k -> vals \X vals]}
                : k \in 0..MaxRecords}

\* The record tables whose j-th row is named j.
OrderedRecordTables == {t \in RecordTables : \A j \in 1..Len(t) : t[j].name = j}

\* main.rs:107-167: the state once the arguments are parsed and the files read.
Loaded(recs, brs, hist) ==
    /\ records = recs
    /\ boundrecords = brs
    /\ histrecords = hist
    /\ pb = NoBound
    /\ i = 0
    /\ ip = <<>>
    /\ drawn = <<>>
    /\ attributed_records = <<>>
    /\ stdout = <<Line(-1, "config", <<>>)>>
    /\ pc = "bounds"

NeedsBoundFile == bounds_strategy = "FromFile" \/ attr_strategy = "Scoped"

\* One trial, over every strategy, every record table that holds a row and
\* every bound file for it.
Init ==
    /\ bounds_strategy \in Strategies
    /\ attr_strategy \in Attributions
    /\ sparsity_control = FALSE
    /\ num_trials = 1
    /\ \E recs \in RecordTables \ {<<>>} :
       \E brs \in (IF NeedsBoundFile THEN BoundFiles(recs) ELSE {<<>>}) :
       \E hist \in (IF bounds_strategy = "HistoricalDistance"
                    THEN {<<[name |-> 1, count |-> 1]>>} ELSE {<<>>}) :
            Loaded(recs, brs, hist)

Spec == Init /\ [][Next]_vars

\* One trial whose partition has one value per record: the Laplace bound, or
\* the bound of a file written for the records.
InitCells ==
    /\ bounds_strategy \in {"Laplace", "FromFile"}
    /\ attr_strategy \in Attributions
    /\ sparsity_control = FALSE
    /\ num_trials = 1
    /\ \E recs \in RecordTables \ {<<>>} :
       \E brs \in (IF NeedsBoundFile
                   THEN {BoundsFor(u, w) : u \in {recs, Reverse(recs)}, w \in {0, 1}}
                   ELSE {<<>>}) :
            Loaded(recs, brs, <<>>)

SpecCells == InitCells /\ [][Next]_vars

\* The bound selector alone, over bound files that may hold negative values.
InitBound ==
    /\ bounds_strategy \in Strategies
    /\ attr_strategy = "Basic"
    /\ sparsity_control \in (IF bounds_strategy = "Laplace" THEN BOOLEAN ELSE {FALSE})
    /\ num_trials = 1
    /\ \E recs \in (IF bounds_strategy = "FromFile"
                    THEN OrderedRecordTables ELSE RecordTables) :
       \E brs \in (IF bounds_strategy = "FromFile" THEN AnyBoundFiles ELSE {<<>>}) :
       \E hist \in (IF bounds_strategy = "HistoricalDistance"
                    THEN SeqsUpTo(Record, 1) \ {<<>>} ELSE {<<>>}) :
            Loaded(recs, brs, hist)

NextBound == SelectBounds

SpecBound == InitBound /\ [][NextBound]_vars

\* The record tables of the runs of several trials.
TrialTables ==
    {<<>>,
     <<[name |-> 1, count |-> 2]>>,
     <<[name |-> 2, count |-> 1], [name |-> 1, count |-> 1]>>,
     <<[name |-> 1, count |-> 0], [name |-> 2, count |-> 2]>>,
     <<[name |-> 2, count |-> 0], [name |-> 1, count |-> 1]>>}

\* The trial loop over several trials.
InitTrials ==
    /\ bounds_strategy \in {"FromFile", "Naive"}
    /\ attr_strategy \in Attributions
    /\ sparsity_control = FALSE
    /\ num_trials \in 0..MaxTrials
    /\ \E recs \in TrialTables :
       \E brs \in (IF NeedsBoundFile
                   THEN {BoundsFor(recs, 0), BoundsFor(Reverse(recs), 1)}
                   ELSE {<<>>}) :
            Loaded(recs, brs, <<>>)

SpecTrials == InitTrials /\ [][Next]_vars

\* ------------------------------------------------------------------ claims
NameCount(s) == [j \in 1..Len(s) |-> <<s[j].name, s[j].count>>]

Attributed(s) == Column(s, "attributed")

\* The trial lines printed so far (the config and bias lines left out).
TrialLines == SelectSeq(stdout, LAMBDA l : l.trial >= 0)

\* C1 as stated: whenever attribute or attribute_scoped returns, the multiset
\* of attributed values is the multiset of the values of the drawn partition.
C1_AttributedIsPermutationOfIp ==
    pc = "output" => SeqBag(Attributed(attributed_records)) = SeqBag(ip)

\* C1 amended: whenever attribute or attribute_scoped returns, the multiset of
\* attributed values is the multiset of the first N values of the drawn
\* partition, N the number of records; it is the multiset of the whole
\* partition when the partition has exactly N values.
C1_AttributedIsPermutationOfPrefix ==
    pc = "output" =>
        /\ Len(attributed_records) = Len(records)
        /\ SeqBag(Attributed(attributed_records)) = SeqBag(Prefix(ip, Len(records)))
        /\ Len(ip) = Len(records) =>
                SeqBag(Attributed(attributed_records)) = SeqBag(ip)

\* C1 witness: a Scoped attribution returned two records whose attributed
\* values are the partition's two distinct values in the other order than the
\* list holds the records.
C1_Witness ==
    /\ pc = "output"
    /\ attr_strategy = "Scoped"
    /\ Len(records) = 2
    /\ Len(ip) = 2
    /\ ip[1] # ip[2]
    /\ Attributed(attributed_records) = <<ip[2], ip[1]>>

\* The ideal-partition line the trial driver printed for trial k.
IdealsLine(k) ==
    LET l == SelectSeq(stdout, LAMBDA x : x.trial = k /\ x.kind = "ideals")
    IN  l[1].vals

\* C2 as stated: in the emitted order (true count descending, name ascending)
\* the ideal_partition values are the drawn partition sorted descending.
C2_IdealsAreSortedPartition ==
    pc = "endtrial" => IdealsLine(i) = SortReverse(ip)

\* C2 amended: in the order attribute and attribute_scoped return the list
\* (true count descending, equal counts left in the rank order of the draws)
\* the i-th record's ideal_partition is the i-th value of the drawn partition.
\* In the order the trial driver emits (equal counts by name) the ideal
\* values are those first N values of the partition, each group of equal
\* counts holding its stretch of them in some order; the sequence is the
\* partition's first N values when no two records have the same count.
C2_IdealsFollowReturnedOrder ==
    /\ pc = "output" =>
          /\ Len(attributed_records) = Len(records)
          /\ \A j \in 1..Len(attributed_records) :
                attributed_records[j].ideal_partition = ip[j]
          /\ NonIncreasing(Column(attributed_records, "count"))
    /\ pc = "endtrial" =>
          LET n == Len(records)
              line == IdealsLine(i)
          IN  /\ Len(line) = n
              /\ SeqBag([j \in 1..n |-> <<partition[j], line[j]>>])
                   = SeqBag([j \in 1..n |-> <<partition[j], ip[j]>>])
              /\ (\A j \in 1..n, k \in 1..n : j # k => partition[j] # partition[k])
                    => line = Prefix(ip, n)

\* C2 witness: two records of equal count are emitted with the smaller ideal
\* value first.
C2_Witness ==
    /\ pc = "endtrial"
    /\ Len(attributed_records) = 2
    /\ attributed_records[1].count = attributed_records[2].count
    /\ IdealsLine(i)[1] < IdealsLine(i)[2]

\* Whether s is in the canonical order: count descending, then name ascending.
CanonicallySorted(s) ==
    \A j \in 1..Len(s), k \in 1..Len(s) :
        j < k => \/ s[j].count > s[k].count
                 \/ (s[j].count = s[k].count /\ s[j].name <= s[k].name)

\* C3: the three lines of a trial list the records in the canonical order,
\* true count descending and name ascending among equal counts, and that
\* order of names and counts is the one arrangement of the input rows that
\* is canonical, whatever the file order and the draws.
C3_CanonicalOutputOrder ==
    pc = "endtrial" =>
        /\ CanonicallySorted(attributed_records)
        /\ SeqBag(NameCount(attributed_records)) = SeqBag(NameCount(records))
        /\ SubSeq(stdout, Len(stdout) - 2, Len(stdout)) =
              <<Line(i, "counts", Column(attributed_records, "count")),
                Line(i, "ideals", Column(attributed_records, "ideal_partition")),
                Line(i, "attr", Attributed(attributed_records))>>
        /\ Column(attributed_records, "count") = partition

\* C3 witness: two records of equal count that the attribution ranked against
\* their names (the later name got the larger value) are emitted name first.
C3_Witness ==
    /\ pc = "endtrial"
    /\ Len(attributed_records) = 2
    /\ attributed_records[1].count = attributed_records[2].count
    /\ attributed_records[1].name < attributed_records[2].name
    /\ attributed_records[1].attributed < attributed_records[2].attributed

\* C4 as stated: every bound the selector produces has upper and lower of the
\* same length, each non-increasing, whatever integers the bound file holds.
C4_BoundsNonIncreasing ==
    pc = "weights" =>
        /\ Len(pb.upper) = Len(pb.lower)
        /\ NonIncreasing(pb.upper)
        /\ NonIncreasing(pb.lower)

NonNegative(col) == \A j \in 1..Len(col) : col[j] >= 0

\* C4 amended: upper and lower always have the same length; each is
\* non-increasing for Laplace, HistoricalDistance and Naive, and for FromFile
\* when the column it is built from holds no negative value (the appended
\* zero is then the smallest entry).
C4_BoundsNonIncreasingIfNonNegative ==
    pc = "weights" =>
        /\ Len(pb.upper) = Len(pb.lower)
        /\ (bounds_strategy = "FromFile" => Len(pb.upper) = Len(boundrecords) + 1)
        /\ (bounds_strategy = "FromFile" => pb.upper[Len(pb.upper)] = 0
                                            /\ pb.lower[Len(pb.lower)] = 0)
        /\ (bounds_strategy # "FromFile" \/ NonNegative(Column(boundrecords, "upper"))
                => NonIncreasing(pb.upper))
        /\ (bounds_strategy # "FromFile" \/ NonNegative(Column(boundrecords, "lower"))
                => NonIncreasing(pb.lower))

\* C4 witness: a FromFile bound built from two rows without negative values
\* whose lower and upper columns were both in ascending order in the file.
C4_Witness ==
    /\ pc = "weights"
    /\ bounds_strategy = "FromFile"
    /\ Len(boundrecords) = 2
    /\ NonNegative(Column(boundrecords, "lower"))
    /\ NonNegative(Column(boundrecords, "upper"))
    /\ boundrecords[1].lower < boundrecords[2].lower
    /\ boundrecords[1].upper < boundrecords[2].upper

NameAligned(recs, brs) ==
    /\ Len(recs) = Len(brs)
    /\ \A j \in 1..Len(recs) : recs[j].name = brs[j].name

\* C6 as stated: attribute_scoped returns attributed records only when the
\* two tables, each sorted by name, have the same length and the same names
\* position by position.
C6_ScopedRequiresAlignment ==
    (pc = "output" /\ attr_strategy = "Scoped") => NameAligned(records, boundrecords)

\* Whether the trial lines are exactly the three lines of each of the trials
\* 0..n-1, in order, the three of a trial of the same length.
CompleteTrials(n) ==
    /\ Len(TrialLines) = 3 * n
    /\ \A k \in 0..(n - 1) :
          /\ TrialLines[3 * k + 1].trial = k /\ TrialLines[3 * k + 1].kind = "counts"
          /\ TrialLines[3 * k + 2].trial = k /\ TrialLines[3 * k + 2].kind = "ideals"
          /\ TrialLines[3 * k + 3].trial = k /\ TrialLines[3 * k + 3].kind = "attr"
          /\ Len(TrialLines[3 * k + 1].vals) = Len(TrialLines[3 * k + 2].vals)
          /\ Len(TrialLines[3 * k + 1].vals) = Len(TrialLines[3 * k + 3].vals)

IsPrefix(s, t) == Len(s) <= Len(t) /\ SubSeq(t, 1, Len(s)) = s

\* C7: when a mechanism call fails in trial k the run ends in error with the
\* three lines of each of the trials 0..k-1 on the output and no line of
\* trial k; a trial whose lines are printed had every draw succeed; and no
\* step removes or changes a line already printed.
C7_FailedTrialPrintsNothing ==
    /\ [](pc = "error" => CompleteTrials(i))
    /\ [](pc \in {"output", "endtrial"} => Len(drawn) = Len(records))
    /\ [](pc = "endtrial" => CompleteTrials(i + 1))
    /\ [][IsPrefix(stdout, stdout')]_vars

\* C7 witness: the second trial failed at its second exponential-mechanism
\* draw, after the first trial was printed.
C7_Witness ==
    /\ pc = "error"
    /\ i = 1
    /\ Len(records) = 2
    /\ Len(drawn) = 1

\* C8 as stated: a trial that is followed by another one leaves the record
\* table and the bound-record table as it found them.
C8_TablesSameAcrossTrials ==
    [][(pc' = "output" /\ i + 1 < num_trials) =>
            (records' = records /\ boundrecords' = boundrecords)]_vars

NameSorted(s) == \A j \in 1..(Len(s) - 1) : s[j].name <= s[j + 1].name

\* C8 amended: besides the weight table and the bound, the row order of the
\* tables is carried over: every trial leaves the record table (and, under
\* Scoped, the bound-record table) sorted by name with the same rows, so the
\* tables seen by trial k+1 are those seen by trial k for every k >= 1, and
\* for k = 0 up to the order of the rows; the bound and the strategies do not
\* change once the loop runs, and the trial's locals are dropped at its end.
C8_TablesKeepRowsAndSettle ==
    /\ [](pc \in {"output", "endtrial"} =>
            /\ NameSorted(records)
            /\ (attr_strategy = "Scoped" => NameSorted(boundrecords)))
    /\ [](pc = "draw" => ip = <<>> /\ drawn = <<>> /\ attributed_records = <<>>)
    /\ [][/\ SeqBag(records') = SeqBag(records)
          /\ SeqBag(boundrecords') = SeqBag(boundrecords)
          /\ (i >= 1 => records' = records /\ boundrecords' = boundrecords)
          /\ (pc # "bounds" => pb' = pb)]_vars

\* C8 witness: the second trial's Scoped attribution returned, over two
\* records and two bound records of different names.
C8_Witness ==
    /\ pc = "output"
    /\ i = 1
    /\ attr_strategy = "Scoped"
    /\ Len(records) = 2
    /\ Len(boundrecords) = 2
    /\ records[1].name < records[2].name
    /\ boundrecords[1].name < boundrecords[2].name

\* C9: the record at position r of the order (placeholder descending, name
\* ascending) ends with the r-th value of the partition as attributed value,
\* so a record whose placeholder is strictly greater than another's never
\* ends with a strictly smaller attributed value.
C9_RankAssignment ==
    pc = "output" =>
        LET n == Len(drawn)
            before(k, j) ==
                \/ drawn[k].attributed > drawn[j].attributed
                \/ /\ drawn[k].attributed = drawn[j].attributed
                   /\ \/ drawn[k].name < drawn[j].name
                      \/ (drawn[k].name = drawn[j].name /\ k < j)
            rank(j) == 1 + Cardinality({k \in 1..n : before(k, j)})
        IN  /\ n = Len(attributed_records)
            /\ SeqBag([j \in 1..n |->
                        <<drawn[j].name, drawn[j].count, ip[rank(j)]>>])
                 = SeqBag([j \in 1..n |->
                        <<attributed_records[j].name, attributed_records[j].count,
                          attributed_records[j].attributed>>])
            /\ \A j \in 1..n, k \in 1..n :
                  drawn[j].attributed > drawn[k].attributed
                      => ip[rank(j)] >= ip[rank(k)]

\* C9 witness: the record later in name order drew the strictly larger
\* placeholder and the partition's first two values differ.
C9_Witness ==
    /\ pc = "output"
    /\ Len(drawn) = 2
    /\ drawn[1].name < drawn[2].name
    /\ drawn[1].attributed < drawn[2].attributed
    /\ ip[1] > ip[2]

IdealByName(s) == {<<s[j].name, s[j].ideal_partition>> : j \in 1..Len(s)}

\* Every result the attribution of this trial could have returned, over all
\* outcomes of its draws.
PossibleResults ==
    IF attr_strategy = "Scoped"
    THEN {attribute_scoped(ip, records, boundrecords, d) :
            d \in ScopedDraws(records, boundrecords)}
    ELSE {attribute(ip, records, d) : d \in BasicDraws(ip, records)}

\* C10 as stated: the ideal_partition of every name is the same in every run
\* of the attribution on the same records and partition, whatever the draws.
C10_IdealIndependentOfDraws ==
    pc = "output" =>
        \A r \in PossibleResults :
            r.status = "Ok" => IdealByName(r.result) = IdealByName(attributed_records)

CountIdeal(s) == [j \in 1..Len(s) |-> <<s[j].count, s[j].ideal_partition>>]

\* C10 amended: the ideal_partition of a name whose true count no other
\* record shares is the same in every run of the attribution on the same
\* records and partition, whatever the draws; among names of equal count the
\* draws decide which name gets which value, and only the values the group
\* gets are the same in every run.
C10_IdealIndependentUnlessTied ==
    pc = "output" =>
        \A r \in PossibleResults :
            r.status = "Ok" =>
                /\ SeqBag(CountIdeal(r.result)) = SeqBag(CountIdeal(attributed_records))
                /\ \A j \in 1..Len(attributed_records) :
                      (\A k \in 1..Len(attributed_records) :
                          k # j => attributed_records[k].count # attributed_records[j].count)
                      => <<attributed_records[j].name,
                           attributed_records[j].ideal_partition>> \in IdealByName(r.result)

\* C10 witness: two records of different counts, and another outcome of the
\* draws that attributes them the other way round.
C10_Witness ==
    /\ pc = "output"
    /\ Len(attributed_records) = 2
    /\ attributed_records[1].count # attributed_records[2].count
    /\ attributed_records[1].attributed # attributed_records[2].attributed
    /\ \E r \in PossibleResults :
          /\ r.status = "Ok"
          /\ \E j \in 1..2, k \in 1..2 :
                /\ r.result[j].name = attributed_records[k].name
                /\ r.result[j].attributed # attributed_records[k].attributed

====
